---- MODULE Spec2Model ----
(***************************************************************************)
(* Variation model of fontir (src/fontir/src/variations.rs).               *)
(*                                                                         *)
(* Coordinates and scalars are f32 in the source.  They are modelled as    *)
(* exact rationals <<n, d>> in lowest terms with d > 0; a division by zero *)
(* yields <<s, 0>> (the sign of the numerator over zero).  Rounding of the *)
(* f32 arithmetic is not modelled.                                         *)
(* A NormalizedLocation is a function from a set of axis names to          *)
(* coordinates, a Tent a record, a VariationRegion a function from axis    *)
(* names to tents, a HashMap a function, a HashSet a set, a Vec a sequence *)
(* (Rust index i is TLA+ index i + 1).                                     *)
(***************************************************************************)
EXTENDS Integers, Sequences, FiniteSets, TLC

VARIABLES
    pc,             \* "start", "built", "failed" (new returned Err), "done" (deltas or the applied function returned)
    in_locations,   \* argument `locations` of VariationModel::new
    axis_order,     \* argument `axis_order` of VariationModel::new
    default,        \* VariationModel.default
    locations,      \* VariationModel.locations
    influence,      \* VariationModel.influence
    delta_weights,  \* VariationModel.delta_weights, entries <<master index (0-based), weight>>
    new_err,        \* the Err returned by VariationModel::new
    point_seqs,     \* argument `point_seqs` of VariationModel::deltas
    deltas_ret,     \* the Result returned by VariationModel::deltas
    calls,          \* per caller, a call of deltas on the shared model: its state, argument, result
    arg,            \* the arguments of a function applied on its own
    ret             \* what that function returned

vars == <<pc, in_locations, axis_order, default, locations, influence,
          delta_weights, new_err, point_seqs, deltas_ret, calls, arg, ret>>

----------------------------------------------------------------------------
(* Bounds of the checked instances *)

\* largest number of locations handed to VariationModel::new
MaxLocs == 4

\* point coordinates handed to VariationModel::deltas are 0..MaxPoint
MaxPoint == 1

----------------------------------------------------------------------------
(* Exact rational arithmetic standing in for OrderedFloat<f32> *)

Abs(x) == IF x < 0 THEN -x ELSE x

Sign(x) == IF x > 0 THEN 1 ELSE IF x < 0 THEN -1 ELSE 0

RECURSIVE GCD(_, _)
GCD(a, b) == IF b = 0 THEN a ELSE GCD(b, a % b)

Rat(n, d) ==
    IF d = 0 THEN <<Sign(n), 0>>
    ELSE LET g == GCD(Abs(n), Abs(d))
             s == IF d < 0 THEN -1 ELSE 1
         IN  <<(s * n) \div g, (s * d) \div g>>

ZERO == <<0, 1>>

ONE == <<1, 1>>

RLt(a, b) == a[1] * b[2] < b[1] * a[2]

RLe(a, b) == a[1] * b[2] <= b[1] * a[2]

RSub(a, b) == Rat(a[1] * b[2] - b[1] * a[2], a[2] * b[2])

RAdd(a, b) == Rat(a[1] * b[2] + b[1] * a[2], a[2] * b[2])

RMul(a, b) == Rat(a[1] * b[1], a[2] * b[2])

RDiv(a, b) == Rat(a[1] * b[2], a[2] * b[1])

RAbs(a) == <<Abs(a[1]), a[2]>>

\* Ordering::cmp as -1 (Less), 0 (Equal), 1 (Greater)
RCmp(a, b) == IF RLt(a, b) THEN -1 ELSE IF RLt(b, a) THEN 1 ELSE 0

ICmp(a, b) == IF a < b THEN -1 ELSE IF a > b THEN 1 ELSE 0

\* derived Ord of Vec<T>: element by element, then the shorter one is Less
RECURSIVE VecCmpInt(_, _)
VecCmpInt(s, t) ==
    IF s = <<>> THEN (IF t = <<>> THEN 0 ELSE -1)
    ELSE IF t = <<>> THEN 1
    ELSE IF Head(s) # Head(t) THEN ICmp(Head(s), Head(t))
    ELSE VecCmpInt(Tail(s), Tail(t))

RECURSIVE VecCmpRat(_, _)
VecCmpRat(s, t) ==
    IF s = <<>> THEN (IF t = <<>> THEN 0 ELSE -1)
    ELSE IF t = <<>> THEN 1
    ELSE IF Head(s) # Head(t) THEN RCmp(Head(s), Head(t))
    ELSE VecCmpRat(Tail(s), Tail(t))

----------------------------------------------------------------------------
(* NormalizedLocation (crate::coords), as used by variations.rs *)

has(location, axis_name) == axis_name \in DOMAIN location

axis_names(location) == DOMAIN location

has_non_zero(location, axis_name) ==
    axis_name \in DOMAIN location /\ location[axis_name] # ZERO

set_pos(location, axis_name, pos) ==
    [a \in DOMAIN location \cup {axis_name} |->
        IF a = axis_name THEN pos ELSE location[a]]

\* the byte order of the axis names used by the instances (String's Ord)
StrRank(s) ==
    CASE s = "ital" -> 0
      [] s = "wdth" -> 1
      [] s = "wght" -> 2

Range(s) == {s[i] : i \in 1..Len(s)}

----------------------------------------------------------------------------
(* LocationSortingHat *)

NonZeroAxes(location) == {a \in DOMAIN location : location[a] # ZERO}

\* LocationSortingHat::new: a location is on-axis if it has exactly one
\* non-zero coordinate; on_axis_points maps the axis to the positions seen
LocationSortingHat_new(locs, order) ==
    LET names == UNION {DOMAIN l : l \in locs}
    IN  [axis_order |-> order,
         on_axis_points |->
            [a \in names |->
                {l[a] : l \in {m \in locs : NonZeroAxes(m) = {a}}}]]

OnAxisGet(hat, axis_name) ==
    IF axis_name \in DOMAIN hat.on_axis_points
    THEN hat.on_axis_points[axis_name] ELSE {}

\* a set of axis names as the Vec that sort() leaves
RECURSIVE SortedNames(_)
SortedNames(S) ==
    IF S = {} THEN <<>>
    ELSE LET m == CHOOSE x \in S : \A y \in S : StrRank(x) <= StrRank(y)
         IN  <<m>> \o SortedNames(S \ {m})

\* a key scoring +1 for an on-axis match
key_for_plus_on_axis(hat, location) ==
    LET order == hat.axis_order
        NonZeroAt(i) == has_non_zero(location, order[i])
        idxs == SelectSeq([i \in 1..Len(order) |-> i], NonZeroAt)
        unknown == {a \in NonZeroAxes(location) : a \notin Range(order)}
        unordered_axes == SortedNames(unknown)
        ordered_axes == [i \in 1..Len(idxs) |-> order[idxs[i]]] \o unordered_axes
        coord(a) == IF a \in DOMAIN location THEN location[a] ELSE ZERO
    IN  [rank |-> Cardinality(NonZeroAxes(location)),
         on_axis_points |->
            Cardinality({a \in DOMAIN location : location[a] \in OnAxisGet(hat, a)}),
         known_axes |->
            [i \in 1..Len(idxs) |-> idxs[i] - 1]
                \o [i \in 1..Cardinality(unknown) |-> 65536],
         ordered_axes |-> ordered_axes,
         axis_value_signs |->
            [i \in 1..Len(ordered_axes) |-> RCmp(coord(ordered_axes[i]), ZERO)],
         axis_value_abs |->
            [i \in 1..Len(ordered_axes) |-> RAbs(coord(ordered_axes[i]))]]

\* a key that does not count the nonzero axes
key_for_no_rank(hat, location) ==
    LET order == hat.axis_order
        NonZeroAt(i) == has_non_zero(location, order[i])
        idxs == SelectSeq([i \in 1..Len(order) |-> i], NonZeroAt)
        unknown == {a \in NonZeroAxes(location) : a \notin Range(order)}
        unordered_axes == SortedNames(unknown)
        ordered_axes == [i \in 1..Len(idxs) |-> order[idxs[i]]] \o unordered_axes
        coord(a) == IF a \in DOMAIN location THEN location[a] ELSE ZERO
    IN  [rank |-> 0,
         on_axis_points |->
            0 - Cardinality({a \in DOMAIN location : location[a] \in OnAxisGet(hat, a)}),
         known_axes |->
            [i \in 1..Len(idxs) |-> idxs[i] - 1]
                \o [i \in 1..Cardinality(unknown) |-> 65536],
         ordered_axes |-> ordered_axes,
         axis_value_signs |->
            [i \in 1..Len(ordered_axes) |-> RCmp(coord(ordered_axes[i]), ZERO)],
         axis_value_abs |->
            [i \in 1..Len(ordered_axes) |-> RAbs(coord(ordered_axes[i]))]]

\* LocationSortingHat::key_for
key_for(hat, location) ==
    LET order == hat.axis_order
        NonZeroAt(i) == has_non_zero(location, order[i])
        idxs == SelectSeq([i \in 1..Len(order) |-> i], NonZeroAt)
        unknown == {a \in NonZeroAxes(location) : a \notin Range(order)}
        unordered_axes == SortedNames(unknown)
        ordered_axes == [i \in 1..Len(idxs) |-> order[idxs[i]]] \o unordered_axes
        coord(a) == IF a \in DOMAIN location THEN location[a] ELSE ZERO
    IN  [rank |-> Cardinality(NonZeroAxes(location)),
         on_axis_points |->
            0 - Cardinality({a \in DOMAIN location : location[a] \in OnAxisGet(hat, a)}),
         known_axes |->
            [i \in 1..Len(idxs) |-> idxs[i] - 1]
                \o [i \in 1..Cardinality(unknown) |-> 65536],
         ordered_axes |-> ordered_axes,
         axis_value_signs |->
            [i \in 1..Len(ordered_axes) |-> RCmp(coord(ordered_axes[i]), ZERO)],
         axis_value_abs |->
            [i \in 1..Len(ordered_axes) |-> RAbs(coord(ordered_axes[i]))]]

\* an order that leaves axis_value_abs out
LocationSortKey_cmp_no_abs(k1, k2) ==
    IF k1.rank # k2.rank THEN ICmp(k1.rank, k2.rank)
    ELSE IF k1.on_axis_points # k2.on_axis_points
         THEN ICmp(k1.on_axis_points, k2.on_axis_points)
    ELSE IF VecCmpInt(k1.known_axes, k2.known_axes) # 0
         THEN VecCmpInt(k1.known_axes, k2.known_axes)
    ELSE LET r1 == [i \in 1..Len(k1.ordered_axes) |-> StrRank(k1.ordered_axes[i])]
             r2 == [i \in 1..Len(k2.ordered_axes) |-> StrRank(k2.ordered_axes[i])]
         IN  IF VecCmpInt(r1, r2) # 0 THEN VecCmpInt(r1, r2)
             ELSE IF VecCmpInt(k1.axis_value_signs, k2.axis_value_signs) # 0
                  THEN VecCmpInt(k1.axis_value_signs, k2.axis_value_signs)
             ELSE 0

\* an order that leaves known_axes out
LocationSortKey_cmp_no_known_axes(k1, k2) ==
    IF k1.rank # k2.rank THEN ICmp(k1.rank, k2.rank)
    ELSE IF k1.on_axis_points # k2.on_axis_points
         THEN ICmp(k1.on_axis_points, k2.on_axis_points)
    ELSE LET r1 == [i \in 1..Len(k1.ordered_axes) |-> StrRank(k1.ordered_axes[i])]
             r2 == [i \in 1..Len(k2.ordered_axes) |-> StrRank(k2.ordered_axes[i])]
         IN  IF VecCmpInt(r1, r2) # 0 THEN VecCmpInt(r1, r2)
             ELSE IF VecCmpInt(k1.axis_value_signs, k2.axis_value_signs) # 0
                  THEN VecCmpInt(k1.axis_value_signs, k2.axis_value_signs)
             ELSE VecCmpRat(k1.axis_value_abs, k2.axis_value_abs)

\* derived Ord of LocationSortKey: the fields in declaration order
LocationSortKey_cmp(k1, k2) ==
    IF k1.rank # k2.rank THEN ICmp(k1.rank, k2.rank)
    ELSE IF k1.on_axis_points # k2.on_axis_points
         THEN ICmp(k1.on_axis_points, k2.on_axis_points)
    ELSE IF VecCmpInt(k1.known_axes, k2.known_axes) # 0
         THEN VecCmpInt(k1.known_axes, k2.known_axes)
    ELSE LET r1 == [i \in 1..Len(k1.ordered_axes) |-> StrRank(k1.ordered_axes[i])]
             r2 == [i \in 1..Len(k2.ordered_axes) |-> StrRank(k2.ordered_axes[i])]
         IN  IF VecCmpInt(r1, r2) # 0 THEN VecCmpInt(r1, r2)
             ELSE IF VecCmpInt(k1.axis_value_signs, k2.axis_value_signs) # 0
                  THEN VecCmpInt(k1.axis_value_signs, k2.axis_value_signs)
             ELSE VecCmpRat(k1.axis_value_abs, k2.axis_value_abs)

\* Vec::sort_by_cached_key over the Vec collected from the hash set: the
\* sort is stable and the hash set's iteration order is unspecified, so
\* every arrangement of S that is non-decreasing in the key can result
RECURSIVE sort_by_cached_key(_, _)
sort_by_cached_key(S, key) ==
    IF S = {} THEN {<<>>}
    ELSE LET mins == {x \in S : \A y \in S : LocationSortKey_cmp(key[x], key[y]) <= 0}
         IN  UNION {{<<m>> \o t : t \in sort_by_cached_key(S \ {m}, key)} : m \in mins}

----------------------------------------------------------------------------
(* Tent and VariationRegion *)

\* a Tent::new that zeroes lower already at peak = 0
Tent_new_from_zero(lower, peak, upper) ==
    IF RLe(ZERO, peak)
    THEN [lower |-> ZERO, peak |-> peak, upper |-> upper]
    ELSE [lower |-> lower, peak |-> peak, upper |-> ZERO]

\* Tent::new
Tent_new(lower, peak, upper) ==
    IF RLt(ZERO, peak)
    THEN [lower |-> ZERO, peak |-> peak, upper |-> upper]
    ELSE [lower |-> lower, peak |-> peak, upper |-> ZERO]

\* a validate without the test for spanning zero
validate_order_only(tent) ==
    IF RLt(tent.peak, tent.lower) \/ RLt(tent.upper, tent.peak) THEN FALSE
    ELSE TRUE

\* Tent::validate
validate(tent) ==
    IF RLt(tent.peak, tent.lower) \/ RLt(tent.upper, tent.peak) THEN FALSE
    ELSE IF RLt(tent.lower, ZERO) /\ RLt(ZERO, tent.upper) THEN FALSE
    ELSE TRUE

\* a closure that always measures from lower
ScalarStep_from_lower(scalar, tent, v) ==
    IF v = tent.peak THEN scalar
    ELSE IF tent.lower = ZERO /\ tent.peak = ZERO /\ tent.upper = ZERO THEN scalar
    ELSE IF RLe(v, tent.lower) \/ RLe(tent.upper, v) THEN ZERO
    ELSE RDiv(RMul(scalar, RSub(v, tent.lower)), RSub(tent.peak, tent.lower))

\* a closure without the test for the (0,0,0) tent
ScalarStep_no_sentinel(scalar, tent, v) ==
    IF v = tent.peak THEN scalar
    ELSE IF RLe(v, tent.lower) \/ RLe(tent.upper, v) THEN ZERO
    ELSE LET subtract_me == IF RLt(v, tent.peak) THEN tent.lower ELSE tent.upper
         IN  RDiv(RMul(scalar, RSub(v, subtract_me)), RSub(tent.peak, subtract_me))

\* a closure that tests the range before the peak
ScalarStep_range_first(scalar, tent, v) ==
    IF tent.lower = ZERO /\ tent.peak = ZERO /\ tent.upper = ZERO THEN scalar
    ELSE IF RLe(v, tent.lower) \/ RLe(tent.upper, v) THEN ZERO
    ELSE IF v = tent.peak THEN scalar
    ELSE LET subtract_me == IF RLt(v, tent.peak) THEN tent.lower ELSE tent.upper
         IN  RDiv(RMul(scalar, RSub(v, subtract_me)), RSub(tent.peak, subtract_me))

\* a closure that answers 1, not the scalar so far, at the peak
ScalarStep_one_at_peak(scalar, tent, v) ==
    IF v = tent.peak THEN ONE
    ELSE IF tent.lower = ZERO /\ tent.peak = ZERO /\ tent.upper = ZERO THEN scalar
    ELSE IF RLe(v, tent.lower) \/ RLe(tent.upper, v) THEN ZERO
    ELSE LET subtract_me == IF RLt(v, tent.peak) THEN tent.lower ELSE tent.upper
         IN  RDiv(RMul(scalar, RSub(v, subtract_me)), RSub(tent.peak, subtract_me))

\* the closure folded by VariationRegion::scalar_at
ScalarStep(scalar, tent, v) ==
    IF v = tent.peak THEN scalar
    ELSE IF tent.lower = ZERO /\ tent.peak = ZERO /\ tent.upper = ZERO THEN scalar
    ELSE IF RLe(v, tent.lower) \/ RLe(tent.upper, v) THEN ZERO
    ELSE LET subtract_me == IF RLt(v, tent.peak) THEN tent.lower ELSE tent.upper
         IN  RDiv(RMul(scalar, RSub(v, subtract_me)), RSub(tent.peak, subtract_me))

\* the fold of VariationRegion::scalar_at over the tents that validate; in
\* exact arithmetic the result does not depend on the hash map's order
RECURSIVE ScalarFold(_, _, _, _)
ScalarFold(scalar, region, axes, location) ==
    IF axes = {} THEN scalar
    ELSE LET a == CHOOSE x \in axes : TRUE
             v == IF a \in DOMAIN location THEN location[a] ELSE ZERO
         IN  ScalarFold(ScalarStep(scalar, region[a], v), region, axes \ {a}, location)

\* the results of the fold over every order in which the hash map can hand
\* out the axes
RECURSIVE ScalarFoldOrders(_, _, _, _)
ScalarFoldOrders(scalar, region, axes, location) ==
    IF axes = {} THEN {scalar}
    ELSE UNION {LET v == IF a \in DOMAIN location THEN location[a] ELSE ZERO
                IN  ScalarFoldOrders(ScalarStep(scalar, region[a], v), region,
                                     axes \ {a}, location) : a \in axes}

\* VariationRegion::scalar_at, every result the iteration order allows
scalar_at_orders(region, location) ==
    ScalarFoldOrders(ONE, region, {a \in DOMAIN region : validate(region[a])}, location)

\* a scalar_at that folds every tent, valid or not
scalar_at_unfiltered(region, location) ==
    ScalarFold(ONE, region, DOMAIN region, location)

\* VariationRegion::scalar_at
scalar_at(region, location) ==
    ScalarFold(ONE, region, {a \in DOMAIN region : validate(region[a])}, location)

----------------------------------------------------------------------------
(* regions_for, master_influence, delta_weights *)

RMin(S) == CHOOSE x \in S : \A y \in S : RLe(x, y)

RMax(S) == CHOOSE x \in S : \A y \in S : RLe(y, x)

\* a regions_for taking the extent of each axis from the location alone
regions_for_own_extent(locs) ==
    [i \in 1..Len(locs) |->
        [axis \in DOMAIN locs[i] |->
            Tent_new(RMin({locs[i][axis], ZERO}), locs[i][axis],
                     RMax({locs[i][axis], ZERO}))]]

\* a regions_for that drops the axes at zero, as the Python original does
regions_for_scrub_zero(locs) ==
    LET values(axis) == {locs[i][axis] : i \in {k \in 1..Len(locs) : axis \in DOMAIN locs[k]}}
        min(axis) == RMin(values(axis) \cup {ZERO})
        max(axis) == RMax(values(axis) \cup {ZERO})
    IN  [i \in 1..Len(locs) |->
            [axis \in NonZeroAxes(locs[i]) |->
                Tent_new(min(axis), locs[i][axis], max(axis))]]

\* regions_for: per axis the (min, max) over all locations, starting from
\* (0, 0); one tent per axis of the location, (0,0,0) where it is at zero
regions_for(locs) ==
    LET values(axis) == {locs[i][axis] : i \in {k \in 1..Len(locs) : axis \in DOMAIN locs[k]}}
        min(axis) == RMin(values(axis) \cup {ZERO})
        max(axis) == RMax(values(axis) \cup {ZERO})
    IN  [i \in 1..Len(locs) |->
            [axis \in DOMAIN locs[i] |->
                IF locs[i][axis] = ZERO
                THEN Tent_new(ZERO, ZERO, ZERO)
                ELSE Tent_new(min(axis), locs[i][axis], max(axis))]]

\* the overlap test of master_influence
Overlap(region, prev_region) ==
    \A axis_name \in DOMAIN region :
        LET tent == region[axis_name]
            prev_peak == prev_region[axis_name].peak
        IN  prev_peak = tent.peak
            \/ (RLt(tent.lower, prev_peak) /\ RLt(prev_peak, tent.upper))

\* a turn that keeps only the first axis to reach the best ratio
SplitStep_first_wins(st, axis, region, prev_region) ==
    LET prev_peak == prev_region[axis].peak
        axis_region == region[axis]
        c == RCmp(prev_peak, axis_region.peak)
        ratio == IF c < 0
                 THEN RDiv(RSub(prev_peak, axis_region.peak),
                           RSub(axis_region.lower, axis_region.peak))
                 ELSE RDiv(RSub(prev_peak, axis_region.peak),
                           RSub(axis_region.upper, axis_region.peak))
        clipped == IF c < 0
                   THEN [axis_region EXCEPT !.lower = prev_peak]
                   ELSE [axis_region EXCEPT !.upper = prev_peak]
        cleared == IF RLt(st.best_ratio, ratio)
                   THEN [best_ratio |-> ratio, axis_regions |-> <<>>]
                   ELSE st
    IN  IF c = 0 THEN st
        ELSE IF RLt(st.best_ratio, ratio)
             THEN [cleared EXCEPT !.axis_regions =
                      [a \in DOMAIN cleared.axis_regions \cup {axis} |->
                          IF a = axis THEN clipped ELSE cleared.axis_regions[a]]]
             ELSE cleared

\* a turn that moves the bound on the far side of the peak
SplitStep_wrong_side(st, axis, region, prev_region) ==
    LET prev_peak == prev_region[axis].peak
        axis_region == region[axis]
        c == RCmp(prev_peak, axis_region.peak)
        ratio == IF c < 0
                 THEN RDiv(RSub(prev_peak, axis_region.peak),
                           RSub(axis_region.lower, axis_region.peak))
                 ELSE RDiv(RSub(prev_peak, axis_region.peak),
                           RSub(axis_region.upper, axis_region.peak))
        clipped == IF c < 0
                   THEN [axis_region EXCEPT !.upper = prev_peak]
                   ELSE [axis_region EXCEPT !.lower = prev_peak]
        cleared == IF RLt(st.best_ratio, ratio)
                   THEN [best_ratio |-> ratio, axis_regions |-> <<>>]
                   ELSE st
    IN  IF c = 0 THEN st
        ELSE IF ratio = cleared.best_ratio
             THEN [cleared EXCEPT !.axis_regions =
                      [a \in DOMAIN cleared.axis_regions \cup {axis} |->
                          IF a = axis THEN clipped ELSE cleared.axis_regions[a]]]
             ELSE cleared

\* a turn that moves the peak instead of a bound
SplitStep_moves_peak(st, axis, region, prev_region) ==
    LET prev_peak == prev_region[axis].peak
        axis_region == region[axis]
        c == RCmp(prev_peak, axis_region.peak)
        ratio == IF c < 0
                 THEN RDiv(RSub(prev_peak, axis_region.peak),
                           RSub(axis_region.lower, axis_region.peak))
                 ELSE RDiv(RSub(prev_peak, axis_region.peak),
                           RSub(axis_region.upper, axis_region.peak))
        clipped == [axis_region EXCEPT !.peak = prev_peak]
        cleared == IF RLt(st.best_ratio, ratio)
                   THEN [best_ratio |-> ratio, axis_regions |-> <<>>]
                   ELSE st
    IN  IF c = 0 THEN st
        ELSE IF ratio = cleared.best_ratio
             THEN [cleared EXCEPT !.axis_regions =
                      [a \in DOMAIN cleared.axis_regions \cup {axis} |->
                          IF a = axis THEN clipped ELSE cleared.axis_regions[a]]]
             ELSE cleared

\* one turn of the loop over axes in master_influence; st is
\* [best_ratio, axis_regions]
SplitStep(st, axis, region, prev_region) ==
    LET prev_peak == prev_region[axis].peak
        axis_region == region[axis]
        c == RCmp(prev_peak, axis_region.peak)
        ratio == IF c < 0
                 THEN RDiv(RSub(prev_peak, axis_region.peak),
                           RSub(axis_region.lower, axis_region.peak))
                 ELSE RDiv(RSub(prev_peak, axis_region.peak),
                           RSub(axis_region.upper, axis_region.peak))
        clipped == IF c < 0
                   THEN [axis_region EXCEPT !.lower = prev_peak]
                   ELSE [axis_region EXCEPT !.upper = prev_peak]
        cleared == IF RLt(st.best_ratio, ratio)
                   THEN [best_ratio |-> ratio, axis_regions |-> <<>>]
                   ELSE st
    IN  IF c = 0 THEN st
        ELSE IF ratio = cleared.best_ratio
             THEN [cleared EXCEPT !.axis_regions =
                      [a \in DOMAIN cleared.axis_regions \cup {axis} |->
                          IF a = axis THEN clipped ELSE cleared.axis_regions[a]]]
             ELSE cleared

RECURSIVE SplitFold(_, _, _, _)
SplitFold(st, axes, region, prev_region) ==
    IF axes = {} THEN st
    ELSE LET a == CHOOSE x \in axes : TRUE
         IN  SplitFold(SplitStep(st, a, region, prev_region), axes \ {a},
                       region, prev_region)

\* a loop body that splits the box without asking for an overlap
ClipAgainst_always(region, prev_region) ==
    IF DOMAIN region # DOMAIN prev_region THEN region
    ELSE LET st == SplitFold([best_ratio |-> <<-1, 1>>, axis_regions |-> <<>>],
                             DOMAIN region, region, prev_region)
         IN  [a \in DOMAIN region |->
                IF a \in DOMAIN st.axis_regions THEN st.axis_regions[a] ELSE region[a]]

\* the body of the loop over prev_region in master_influence
ClipAgainst(region, prev_region) ==
    IF DOMAIN region # DOMAIN prev_region THEN region
    ELSE IF ~Overlap(region, prev_region) THEN region
    ELSE LET st == SplitFold([best_ratio |-> <<-1, 1>>, axis_regions |-> <<>>],
                             DOMAIN region, region, prev_region)
         IN  [a \in DOMAIN region |->
                IF a \in DOMAIN st.axis_regions THEN st.axis_regions[a] ELSE region[a]]

RECURSIVE ClipLoop(_, _, _, _)
ClipLoop(region, regions, j, i) ==
    IF j >= i THEN region
    ELSE ClipLoop(ClipAgainst(region, regions[j]), regions, j + 1, i)

\* a master_influence that returns the regions as they came
master_influence_unclipped(regions) == regions

\* master_influence
master_influence(regions) ==
    [i \in 1..Len(regions) |-> ClipLoop(regions[i], regions, 1, i)]

\* delta_weights without the test for a zero scalar
delta_weights_keep_zero(locs, influencers) ==
    [loc_idx \in 1..Len(locs) |->
        [j \in 1..(loc_idx - 1) |-> <<j - 1, scalar_at(influencers[j], locs[loc_idx])>>]]

\* delta_weights: for each location the (0-based index, scalar) of the
\* earlier regions whose scalar there is not zero
delta_weights_of(locs, influencers) ==
    [loc_idx \in 1..Len(locs) |->
        LET Influential(inf_idx) == scalar_at(influencers[inf_idx], locs[loc_idx]) # ZERO
            kept == SelectSeq([j \in 1..(loc_idx - 1) |-> j], Influential)
        IN  [n \in 1..Len(kept) |->
                <<kept[n] - 1, scalar_at(influencers[kept[n]], locs[loc_idx])>>]]

----------------------------------------------------------------------------
(* VariationModel *)

\* the model held in the state, as the `self` of a method
Self ==
    [default |-> default, locations |-> locations,
     influence |-> influence, delta_weights |-> delta_weights]

\* bad_axes looking only at the axes with a non-zero coordinate
bad_axes_non_zero(location, order) ==
    {n \in axis_names(location) : n \notin Range(order) /\ location[n] # ZERO}

\* the axes of a location without an assigned order (VariationModel::new)
bad_axes(location, order) == {n \in axis_names(location) : n \notin Range(order)}

\* Expand leaving the location as supplied
ExpandNothing(location, axes) == location

\* VariationModel::new: 0 is assigned on every axis of the order the
\* location has no value for
RECURSIVE Expand(_, _)
Expand(location, axes) ==
    IF axes = {} THEN location
    ELSE LET axis_name == CHOOSE a \in axes : TRUE
         IN  Expand(IF ~has(location, axis_name)
                    THEN set_pos(location, axis_name, ZERO)
                    ELSE location,
                    axes \ {axis_name})

\* the master paired with the n-th entry (1-based) of master_influences by
\* `.zip(&self.locations)` in VariationModel::deltas
ZipMaster(self, n) == self.locations[n]

\* the fold of VariationModel::deltas over the zipped (weight, master) pairs
\* from pair n on, for the point at position idx (1-based)
RECURSIVE DeltaFold(_, _, _, _, _, _)
DeltaFold(acc, self, result, master_influences, n, idx) ==
    IF n > Len(master_influences) \/ n > Len(self.locations) THEN acc
    ELSE LET master_weight == master_influences[n][2]
             master_loc == ZipMaster(self, n)
         IN  IF master_loc \notin DOMAIN result
             THEN DeltaFold(acc, self, result, master_influences, n + 1, idx)
             ELSE IF idx > Len(result[master_loc])
             THEN DeltaFold(acc, self, result, master_influences, n + 1, idx)
             ELSE LET other == result[master_loc][idx]
                  IN  DeltaFold(RSub(acc, IF master_weight # ONE
                                          THEN RMul(other, master_weight)
                                          ELSE other),
                                self, result, master_influences, n + 1, idx)

\* DeltasLoop giving a location without a point sequence an empty entry
RECURSIVE DeltasLoopFill(_, _, _, _)
DeltasLoopFill(self, seqs, loc_idx, result) ==
    IF loc_idx > Len(self.locations) THEN result
    ELSE LET loc == self.locations[loc_idx]
             points == IF loc \in DOMAIN seqs THEN seqs[loc] ELSE <<>>
             ds == [idx \in 1..Len(points) |->
                       DeltaFold(Rat(points[idx] - 0, 1), self, result,
                                 self.delta_weights[loc_idx], 1, idx)]
         IN  DeltasLoopFill(self, seqs, loc_idx + 1,
                            [l \in DOMAIN result \cup {loc} |->
                                IF l = loc THEN ds ELSE result[l]])

\* the loop of VariationModel::deltas over self.locations from loc_idx on
\* (1-based), skipping the locations without a point sequence
RECURSIVE DeltasLoop(_, _, _, _)
DeltasLoop(self, seqs, loc_idx, result) ==
    IF loc_idx > Len(self.locations) THEN result
    ELSE LET loc == self.locations[loc_idx]
         IN  IF loc \notin DOMAIN seqs
             THEN DeltasLoop(self, seqs, loc_idx + 1, result)
             ELSE LET points == seqs[loc]
                      ds == [idx \in 1..Len(points) |->
                                DeltaFold(Rat(points[idx] - 0, 1), self, result,
                                          self.delta_weights[loc_idx], 1, idx)]
                  IN  DeltasLoop(self, seqs, loc_idx + 1,
                                 [l \in DOMAIN result \cup {loc} |->
                                     IF l = loc THEN ds ELSE result[l]])

\* the check for the default's point sequence in VariationModel::deltas
DefaultMissing(self, seqs) == self.default \notin DOMAIN seqs

\* LengthsDiffer looking only at the keys that are model locations
LengthsDifferKnown(self, seqs) ==
    \E l \in DOMAIN seqs \cap Range(self.locations) :
        Len(seqs[l]) # Len(seqs[self.default])

\* the length check of VariationModel::deltas
LengthsDiffer(self, seqs) ==
    \E l \in DOMAIN seqs : Len(seqs[l]) # Len(seqs[self.default])

\* deltas with the two checks in the other order
deltas_lengths_first(self, seqs) ==
    IF \E l1, l2 \in DOMAIN seqs : Len(seqs[l1]) # Len(seqs[l2])
    THEN [kind |-> "Err", err |-> "InconsistentNumbersOfPoints"]
    ELSE IF DefaultMissing(self, seqs)
    THEN [kind |-> "Err", err |-> "DefaultUndefined"]
    ELSE [kind |-> "Ok", value |-> DeltasLoop(self, seqs, 1, <<>>)]

\* a deltas that refuses a key the model does not hold
deltas_rejects_unknown(self, seqs) ==
    IF DefaultMissing(self, seqs)
    THEN [kind |-> "Err", err |-> "DefaultUndefined"]
    ELSE IF LengthsDiffer(self, seqs)
    THEN [kind |-> "Err", err |-> "InconsistentNumbersOfPoints"]
    ELSE IF \E l \in DOMAIN seqs : l \notin Range(self.locations)
    THEN [kind |-> "Err", err |-> "UnknownLocation"]
    ELSE [kind |-> "Ok", value |-> DeltasLoop(self, seqs, 1, <<>>)]

\* VariationModel::deltas
deltas(self, seqs) ==
    IF DefaultMissing(self, seqs)
    THEN [kind |-> "Err", err |-> "DefaultUndefined"]
    ELSE IF LengthsDiffer(self, seqs)
    THEN [kind |-> "Err", err |-> "InconsistentNumbersOfPoints"]
    ELSE [kind |-> "Ok", value |-> DeltasLoop(self, seqs, 1, <<>>)]

----------------------------------------------------------------------------
(* The inputs of the checked instances *)

Half == Rat(1, 2)

SizedSubsets(S, n) == {T \in SUBSET S : Cardinality(T) <= n}

\* locations given on both axes, for the instances that go on to deltas
DeltaLocs == {[wght |-> a, wdth |-> b] : a \in {ZERO, Half, ONE}, b \in {ZERO, ONE}}

\* a key of point_seqs that lacks an axis of the model
Unfilled == [wght |-> ONE]

\* point sequences: none, one point with a coordinate in 0..MaxPoint, or
\* two different points
PointSeqs == {<<>>} \cup {<<p>> : p \in 0..MaxPoint} \cup {<<MaxPoint, 0>>}

\* largest number of locations of the instances that stop after new
MaxNewLocs == 3

\* locations given on any subset of the two axes
NewLocs ==
    UNION {[S -> {<<-1, 1>>, ZERO, Half, ONE}] : S \in SUBSET {"wght", "wdth"}}

AxisOrders == {<<"wght">>, <<"wght", "wdth">>, <<"wdth", "wght">>}

----------------------------------------------------------------------------
(* State machine: new, then deltas on the model new returned *)

NoResult == [kind |-> "None"]

\* before new the state holds VariationModel::empty()
InitModel ==
    /\ pc = "start"
    /\ default = <<>>
    /\ locations = <<>>
    /\ influence = <<>>
    /\ delta_weights = <<>>
    /\ new_err = NoResult
    /\ point_seqs = <<>>
    /\ deltas_ret = NoResult

\* no caller shares the model
NoCalls == calls = <<>>

\* no function is applied on its own
NoArg == arg = <<>> /\ ret = NoResult

Init ==
    /\ in_locations \in SizedSubsets(DeltaLocs, MaxLocs)
    /\ axis_order = <<"wght", "wdth">>
    /\ InitModel
    /\ NoCalls
    /\ NoArg

InitNew ==
    /\ in_locations \in SizedSubsets(NewLocs, MaxNewLocs)
    /\ axis_order \in AxisOrders
    /\ InitModel
    /\ NoCalls
    /\ NoArg

\* VariationModel::new returning Err: the loop over the hash set stops at
\* the first location with an axis outside axis_order, whichever it meets
NewErr ==
    /\ pc = "start"
    /\ \E location \in in_locations :
        /\ bad_axes(location, axis_order) # {}
        /\ new_err' = [kind |-> "AxesWithoutAssignedOrder",
                       axis_names |-> bad_axes(location, axis_order),
                       location |-> location]
    /\ pc' = "failed"
    /\ UNCHANGED <<in_locations, axis_order, default, locations, influence,
                   delta_weights, point_seqs, deltas_ret, calls, arg, ret>>

\* VariationModel::new returning Ok
NewOk ==
    /\ pc = "start"
    /\ \A location \in in_locations : bad_axes(location, axis_order) = {}
    /\ LET axes == Range(axis_order)
           expanded_locations == {Expand(l, axes) : l \in in_locations}
           sorting_hat == LocationSortingHat_new(expanded_locations, axis_order)
           key == [l \in expanded_locations |-> key_for(sorting_hat, l)]
       IN  \E sorted \in sort_by_cached_key(expanded_locations, key) :
             LET infl == master_influence(regions_for(sorted))
             IN  /\ default' = [a \in axes |-> ZERO]
                 /\ locations' = sorted
                 /\ influence' = infl
                 /\ delta_weights' = delta_weights_of(sorted, infl)
    /\ pc' = "built"
    /\ UNCHANGED <<in_locations, axis_order, new_err, point_seqs, deltas_ret,
                   calls, arg, ret>>

\* a call of VariationModel::deltas on the built model
Deltas ==
    /\ pc = "built"
    /\ \E keys \in SUBSET (Range(locations) \cup {default, Unfilled}) :
         \E seqs \in [keys -> PointSeqs] :
            /\ point_seqs' = seqs
            /\ deltas_ret' = deltas(Self, seqs)
    /\ pc' = "done"
    /\ UNCHANGED <<in_locations, axis_order, default, locations, influence,
                   delta_weights, new_err, calls, arg, ret>>

Next == NewOk \/ Deltas

Spec == Init /\ [][Next]_vars

NextNew == NewErr \/ NewOk

SpecNew == InitNew /\ [][NextNew]_vars

----------------------------------------------------------------------------
(* State machine: new on locations given on both axes, either axis order *)

FullLocs == [{"wght", "wdth"} -> {<<-1, 1>>, ZERO, Half, ONE}]

InitFull ==
    /\ in_locations \in SizedSubsets(FullLocs, MaxLocs)
    /\ axis_order \in {<<"wght", "wdth">>, <<"wdth", "wght">>}
    /\ InitModel
    /\ NoCalls
    /\ NoArg

NextFull == NewOk

SpecFull == InitFull /\ [][NextFull]_vars

----------------------------------------------------------------------------
(* State machine: new on locations with two inner values on one axis and a
   negative side, for the regions and their clipping *)

Quarter == Rat(1, 4)

InfluenceLocs ==
    {[wght |-> a, wdth |-> b] :
        a \in {<<-1, 1>>, ZERO, Quarter, Half, ONE}, b \in {ZERO, Half, ONE}}

InitInfluence ==
    /\ in_locations \in SizedSubsets(InfluenceLocs, MaxLocs)
    /\ axis_order \in {<<"wght", "wdth">>, <<"wdth", "wght">>}
    /\ InitModel
    /\ NoCalls
    /\ NoArg

NextInfluence == NewOk

SpecInfluence == InitInfluence /\ [][NextInfluence]_vars

----------------------------------------------------------------------------
(* State machine: callers sharing one built model, each calling deltas *)

\* deltas takes &self: the callers hold the same model and only their own
\* argument and result
Callers == {1, 2}

CallLocs == {[wght |-> ZERO, wdth |-> ZERO], [wght |-> ONE, wdth |-> ZERO],
             [wght |-> ONE, wdth |-> ONE]}

\* one point per supplied location
CallSeqs == {<<p>> : p \in 0..MaxPoint}

Idle == [pc |-> "idle", seqs |-> <<>>, ret |-> NoResult]

InitCalls ==
    /\ in_locations \in SUBSET CallLocs
    /\ axis_order = <<"wght", "wdth">>
    /\ InitModel
    /\ calls = [t \in Callers |-> Idle]
    /\ NoArg

\* caller t enters deltas with its own point_seqs
CallDeltas(t) ==
    /\ pc = "built"
    /\ calls[t].pc \in {"idle", "returned"}
    /\ \E keys \in SUBSET (Range(locations) \cup {default}) :
         \E seqs \in [keys -> CallSeqs] :
            calls' = [calls EXCEPT ![t] = [pc |-> "running", seqs |-> seqs,
                                           ret |-> NoResult]]
    /\ UNCHANGED <<pc, in_locations, axis_order, default, locations, influence,
                   delta_weights, new_err, point_seqs, deltas_ret, arg, ret>>

\* a deltas that would take the weight table out of the model as it goes
ReturnDeltasDraining(t) ==
    /\ pc = "built"
    /\ calls[t].pc = "running"
    /\ calls' = [calls EXCEPT ![t].pc = "returned",
                              ![t].ret = deltas(Self, calls[t].seqs)]
    /\ delta_weights' = [k \in DOMAIN delta_weights |-> <<>>]
    /\ UNCHANGED <<pc, in_locations, axis_order, default, locations, influence,
                   new_err, point_seqs, deltas_ret, arg, ret>>

\* caller t leaves deltas: the body reads self and writes only its local
\* result
ReturnDeltas(t) ==
    /\ pc = "built"
    /\ calls[t].pc = "running"
    /\ calls' = [calls EXCEPT ![t].pc = "returned",
                              ![t].ret = deltas(Self, calls[t].seqs)]
    /\ UNCHANGED <<pc, in_locations, axis_order, default, locations, influence,
                   delta_weights, new_err, point_seqs, deltas_ret, arg, ret>>

Call == \E t \in Callers : CallDeltas(t)

Return == \E t \in Callers : ReturnDeltas(t)

NextCalls == NewOk \/ Call \/ Return

SpecCalls == InitCalls /\ [][NextCalls]_vars

----------------------------------------------------------------------------
(* State machines: Tent::new, Tent::validate and scalar_at applied on their
   own to arguments drawn from a grid *)

\* no model is built
InitNoModel ==
    /\ in_locations = {}
    /\ axis_order = <<>>
    /\ InitModel
    /\ NoCalls
    /\ ret = NoResult

Tent(lower, peak, upper) == [lower |-> lower, peak |-> peak, upper |-> upper]

TentCoords == {<<-1, 1>>, <<-1, 2>>, ZERO, Half, ONE}

InitTent ==
    /\ InitNoModel
    /\ arg \in [lower : TentCoords, peak : TentCoords, upper : TentCoords]

\* Tent::new(arg.lower, arg.peak, arg.upper)
TentNew ==
    /\ pc = "start"
    /\ ret' = [kind |-> "Tent::new",
               value |-> Tent_new(arg.lower, arg.peak, arg.upper)]
    /\ pc' = "done"
    /\ UNCHANGED <<in_locations, axis_order, default, locations, influence,
                   delta_weights, new_err, point_seqs, deltas_ret, calls, arg>>

\* arg.validate() on the tent with the fields of arg as they are
TentValidate ==
    /\ pc = "start"
    /\ ret' = [kind |-> "validate", value |-> validate(arg)]
    /\ pc' = "done"
    /\ UNCHANGED <<in_locations, axis_order, default, locations, influence,
                   delta_weights, new_err, point_seqs, deltas_ret, calls, arg>>

NextTent == TentNew \/ TentValidate

SpecTent == InitTent /\ [][NextTent]_vars

\* tents of the regions handed to scalar_at: any three grid values, valid
\* or not
RegionCoords == {<<-1, 1>>, ZERO, ONE, <<2, 1>>}

RegionTents == {Tent(l, p, u) : l \in RegionCoords, p \in RegionCoords, u \in RegionCoords}

QueryCoords == {<<-1, 1>>, <<-1, 2>>, ZERO, Half, ONE, <<3, 2>>, <<2, 1>>}

\* the calls of the source's tests scalar_at_off_default_for_simple_weight,
\* scalar_at_for_weight and scalar_at_for_weight_width_fixup, whose values
\* lie off the grid; the tests build their tents with Tent::new
TestArgs ==
    {[region |-> [wght |-> Tent_new(ZERO, <<2, 1>>, <<3, 1>>)],
      location |-> [wght |-> <<1, 5>>]],
     [region |-> [wght |-> Tent_new(ZERO, <<2, 1>>, <<4, 1>>)],
      location |-> [wght |-> <<5, 2>>]],
     [region |-> [wght |-> Tent_new(ZERO, <<2, 1>>, <<4, 1>>),
                  wdth |-> Tent_new(<<-1, 1>>, ZERO, ONE)],
      location |-> [wght |-> <<5, 2>>, wdth |-> ZERO]]}

ScalarArgs ==
    TestArgs \cup
    {[region |-> r, location |-> l] :
        r \in UNION {[S -> RegionTents] : S \in SUBSET {"wght", "wdth"}},
        l \in UNION {[S -> QueryCoords] : S \in SUBSET {"wght", "wdth"}}}

InitScalar ==
    /\ InitNoModel
    /\ arg \in ScalarArgs

\* arg.region.scalar_at(arg.location)
ScalarAt ==
    /\ pc = "start"
    /\ ret' = [kind |-> "scalar_at",
               value |-> scalar_at(arg.region, arg.location)]
    /\ pc' = "done"
    /\ UNCHANGED <<in_locations, axis_order, default, locations, influence,
                   delta_weights, new_err, point_seqs, deltas_ret, calls, arg>>

NextScalar == ScalarAt

SpecScalar == InitScalar /\ [][NextScalar]_vars

----------------------------------------------------------------------------
(* Properties *)

Built == pc \in {"built", "done"}

DeltasOk == pc = "done" /\ deltas_ret.kind = "Ok"

\* the point at position p of a supplied sequence minus the zero point
Initial(l, p) == Rat(point_seqs[l][p] - 0, 1)

\* the sum, over the entries n.. of the weight table dw whose master has a
\* supplied sequence, of weight times the master's returned delta at p
RECURSIVE Influenced(_, _, _)
Influenced(dw, n, p) ==
    IF n > Len(dw) THEN ZERO
    ELSE LET master == locations[dw[n][1] + 1]
         IN  IF master \in DOMAIN point_seqs
             THEN RAdd(RMul(dw[n][2], deltas_ret.value[master][p]),
                       Influenced(dw, n + 1, p))
             ELSE Influenced(dw, n + 1, p)

\* C1: every returned delta is the supplied value minus the zero point
\* minus, for every (j, weight) of the location's weight table whose master
\* locations[j] has a supplied sequence, weight times that master's delta
\* (stated for the models that hold the default location)
C1_DeltaFollowsWeightTable ==
    (DeltasOk /\ default \in Range(locations)) =>
        \A k \in 1..Len(locations) :
            locations[k] \in DOMAIN point_seqs =>
                \A p \in 1..Len(point_seqs[locations[k]]) :
                    deltas_ret.value[locations[k]][p]
                        = RSub(Initial(locations[k], p),
                               Influenced(delta_weights[k], 1, p))

\* C2: when every model location and the default have a sequence, adding
\* back weight times delta[j] for every (j, weight) of the weight table
\* to the returned delta reproduces the supplied value (stated for the
\* models that hold the default location)
C2_RoundTrip ==
    (DeltasOk /\ default \in Range(locations)
        /\ Range(locations) \subseteq DOMAIN point_seqs) =>
        \A k \in 1..Len(locations) :
            \A p \in 1..Len(point_seqs[locations[k]]) :
                RAdd(deltas_ret.value[locations[k]][p],
                     Influenced(delta_weights[k], 1, p))
                    = Rat(point_seqs[locations[k]][p], 1)

\* C3: the first location of every model new returns is the default
C3_DefaultFirst ==
    pc = "built" => (Len(locations) >= 1 /\ locations[1] = default)

\* C4: delta_weights[k] lists, in strictly ascending j, exactly the
\* (j, influence[j].scalar_at(locations[k])) with j < k and a scalar that
\* is not zero; the first table is empty
C4_DeltaWeightsExact ==
    Built =>
        /\ Len(delta_weights) = Len(locations)
        /\ \A k \in 1..Len(locations) :
            LET dw == delta_weights[k]
            IN  /\ \A n \in 1..Len(dw) :
                     /\ dw[n][1] \in 0..(k - 2)
                     /\ dw[n][2] # ZERO
                     /\ dw[n][2] = scalar_at(influence[dw[n][1] + 1], locations[k])
                /\ \A n \in 1..(Len(dw) - 1) : dw[n][1] < dw[n + 1][1]
                /\ \A j \in 0..(k - 2) :
                     scalar_at(influence[j + 1], locations[k]) # ZERO
                        => \E n \in 1..Len(dw) : dw[n][1] = j
                /\ (k = 1 => dw = <<>>)

\* a weight table that leaves out an earlier master without influence, and
\* one with a weight strictly between 0 and 1
C4_Witness ==
    /\ pc = "built"
    /\ \E k \in 1..Len(locations) :
         delta_weights[k] # <<>> /\ Len(delta_weights[k]) < k - 1
    /\ \E k \in 1..Len(locations) :
         \E n \in 1..Len(delta_weights[k]) :
            RLt(ZERO, delta_weights[k][n][2]) /\ RLt(delta_weights[k][n][2], ONE)

\* C5: new fails exactly when an input location has an axis outside
\* axis_order; the error names those axes of one such location and the
\* location as supplied, and no model is built
C5_AxesWithoutAssignedOrder ==
    /\ pc = "failed" =>
        /\ new_err.kind = "AxesWithoutAssignedOrder"
        /\ new_err.location \in in_locations
        /\ new_err.axis_names = DOMAIN new_err.location \ Range(axis_order)
        /\ new_err.axis_names # {}
        /\ locations = <<>> /\ influence = <<>> /\ delta_weights = <<>>
    /\ pc = "built" =>
        /\ new_err = NoResult
        /\ \A l \in in_locations : DOMAIN l \subseteq Range(axis_order)

\* new failed on a location whose only unordered axis is at coordinate 0
C5_Witness ==
    /\ pc = "failed"
    /\ \A a \in new_err.axis_names : new_err.location[a] = ZERO
    /\ DOMAIN new_err.location # new_err.axis_names

\* C6: without an entry for the model's default, deltas returns
\* DefaultUndefined and nothing else
C6_DefaultUndefined ==
    (pc = "done" /\ default \notin DOMAIN point_seqs) =>
        deltas_ret = [kind |-> "Err", err |-> "DefaultUndefined"]

\* the default is missing while sequences of different lengths are given
\* for model locations
C6_Witness ==
    /\ pc = "done"
    /\ default \notin DOMAIN point_seqs
    /\ \E l1, l2 \in DOMAIN point_seqs \cap Range(locations) :
         Len(point_seqs[l1]) # Len(point_seqs[l2])
    /\ deltas_ret.kind = "Err"

\* C7: with a sequence for the default, deltas returns
\* InconsistentNumbersOfPoints, and nothing else, exactly when some
\* sequence of point_seqs differs in length from the default's
C7_InconsistentNumbersOfPoints ==
    (pc = "done" /\ default \in DOMAIN point_seqs) =>
        ((\E l \in DOMAIN point_seqs : Len(point_seqs[l]) # Len(point_seqs[default]))
            <=> deltas_ret = [kind |-> "Err", err |-> "InconsistentNumbersOfPoints"])

\* the only sequence of another length belongs to a key the model does
\* not know
C7_Witness ==
    /\ pc = "done"
    /\ default \in DOMAIN point_seqs
    /\ deltas_ret.kind = "Err"
    /\ Unfilled \in DOMAIN point_seqs
    /\ \A l \in DOMAIN point_seqs \ {Unfilled} :
         Len(point_seqs[l]) = Len(point_seqs[default])
    /\ Cardinality(DOMAIN point_seqs \cap Range(locations)) >= 2

C9_DefaultDelta ==
    DeltasOk =>
        /\ default \in DOMAIN deltas_ret.value
        /\ \A p \in 1..Len(point_seqs[default]) :
             deltas_ret.value[default][p] = Initial(default, p)

\* the axis completion the claim describes: 0 on the axes left out
Completed(l) == [a \in Range(axis_order) |-> IF a \in DOMAIN l THEN l[a] ELSE ZERO]

\* C10: the model's locations are the input locations completed with 0 on
\* the axes of axis_order they leave out, each exactly once
C10_LocationsCompleted ==
    pc = "built" =>
        /\ \A i \in 1..Len(locations) : DOMAIN locations[i] = Range(axis_order)
        /\ \A i, j \in 1..Len(locations) : locations[i] = locations[j] => i = j
        /\ Range(locations) = {Completed(l) : l \in in_locations}

\* two input locations that differ by a left-out zero became one entry
C10_Witness ==
    /\ pc = "built"
    /\ Len(locations) < Cardinality(in_locations)
    /\ Len(locations) >= 2

\* C11: deltas never changes the model (default, locations, influence and
\* delta_weights stay as new built them), and a call that has returned holds
\* the result of that call run alone on the model, whatever the other
\* callers did in between
C11_CallsDoNotInterfere ==
    [][/\ pc = "built" =>
            UNCHANGED <<default, locations, influence, delta_weights>>
       /\ \A t \in DOMAIN calls' :
            calls'[t].pc = "returned" =>
                calls'[t].ret = deltas(Self, calls'[t].seqs)]_vars

\* one caller has its result while the other is inside deltas with other
\* points
C11_Witness ==
    /\ pc = "built"
    /\ calls # <<>>
    /\ calls[1].pc = "running"
    /\ calls[2].pc = "returned"
    /\ calls[2].ret.kind = "Ok"
    /\ calls[1].seqs # calls[2].seqs
    /\ \E k \in DOMAIN delta_weights : delta_weights[k] # <<>>

\* the key of location l as the claim words it, the on-axis values taken
\* once from all the model's locations
C12_OnAxis(a) == {m[a] : m \in {x \in Range(locations) : NonZeroAxes(x) = {a}}}

C12_Key(l) ==
    LET NonZeroAt(i) == l[axis_order[i]] # ZERO
        idxs == SelectSeq([i \in 1..Len(axis_order) |-> i], NonZeroAt)
        names == [i \in 1..Len(idxs) |-> axis_order[idxs[i]]]
    IN  [rank |-> Cardinality(NonZeroAxes(l)),
         on_axis_points |->
            0 - Cardinality({a \in NonZeroAxes(l) : l[a] \in C12_OnAxis(a)}),
         known_axes |-> [i \in 1..Len(idxs) |-> idxs[i] - 1],
         ordered_axes |-> names,
         axis_value_signs |-> [i \in 1..Len(names) |-> Sign(l[names[i]][1])],
         axis_value_abs |-> [i \in 1..Len(names) |-> RAbs(l[names[i]])]]

\* C12: the model's locations are in ascending order of the tuple (rank,
\* on_axis_points, known_axes, ordered_axes, axis_value_signs,
\* axis_value_abs) compared field by field
C12_SortedByKey ==
    pc = "built" =>
        \A i, j \in DOMAIN locations :
            i < j => LocationSortKey_cmp(C12_Key(locations[i]),
                                         C12_Key(locations[j])) <= 0

\* a model where on_axis_points decides between two locations of one rank
\* and the signs decide between two locations equal in the earlier fields
C12_Witness ==
    /\ pc = "built"
    /\ \E i, j \in DOMAIN locations :
         /\ i < j
         /\ C12_Key(locations[i]).rank = C12_Key(locations[j]).rank
         /\ C12_Key(locations[i]).on_axis_points
                < C12_Key(locations[j]).on_axis_points
    /\ \E i, j \in DOMAIN locations :
         /\ i < j
         /\ C12_Key(locations[i]).on_axis_points
                = C12_Key(locations[j]).on_axis_points
         /\ C12_Key(locations[i]).known_axes = C12_Key(locations[j]).known_axes
         /\ C12_Key(locations[i]).axis_value_signs
                # C12_Key(locations[j]).axis_value_signs

\* the coordinates observed on axis a among the model's locations
AxisCoords(a) == {m[a] : m \in Range(locations)}

\* every nonzero coordinate of l is the observed extreme of its axis
CornerMaster(l) ==
    /\ NonZeroAxes(l) # {}
    /\ \A a \in NonZeroAxes(l) :
         \/ \A v \in AxisCoords(a) : RLe(v, l[a])
         \/ \A v \in AxisCoords(a) : RLe(l[a], v)

\* some nonzero coordinate of l lies strictly inside the observed range of
\* its axis
FixupMaster(l) ==
    \E a \in NonZeroAxes(l) :
        /\ \E v \in AxisCoords(a) : RLt(v, l[a])
        /\ \E v \in AxisCoords(a) : RLt(l[a], v)

\* C13 as worded: in a model holding the default, the default is first and
\* no fixup master stands before a corner master
C13_NoFixupBeforeCorner ==
    (pc = "built" /\ default \in Range(locations)) =>
        /\ locations[1] = default
        /\ \A i, j \in DOMAIN locations :
             i < j => ~(FixupMaster(locations[i]) /\ CornerMaster(locations[j]))

\* C13 amended: the default, when among the locations, is first, and a
\* location with fewer nonzero axes stands before every location with more,
\* so no fixup master stands before a corner master of fewer nonzero axes
C13_FewerAxesFirst ==
    pc = "built" =>
        /\ \A i \in DOMAIN locations : locations[i] = default => i = 1
        /\ \A i, j \in DOMAIN locations :
             i < j => Cardinality(NonZeroAxes(locations[i]))
                        <= Cardinality(NonZeroAxes(locations[j]))

\* the default first, a corner on one axis before a fixup on two, and a
\* fixup before a corner with as many nonzero axes
C13_Witness ==
    /\ pc = "built"
    /\ locations # <<>>
    /\ locations[1] = default
    /\ \E i, j \in DOMAIN locations :
         /\ i < j
         /\ CornerMaster(locations[i])
         /\ FixupMaster(locations[j])
         /\ Cardinality(NonZeroAxes(locations[i])) = 1
         /\ Cardinality(NonZeroAxes(locations[j])) = 2
    /\ \E i, j \in DOMAIN locations :
         /\ i < j
         /\ FixupMaster(locations[i])
         /\ CornerMaster(locations[j])

\* every model VariationModel::new can return for the given arguments, one
\* per arrangement the sort can produce
new_models(locs, order) ==
    LET axes == Range(order)
        expanded_locations == {Expand(l, axes) : l \in locs}
        sorting_hat == LocationSortingHat_new(expanded_locations, order)
        key == [l \in expanded_locations |-> key_for(sorting_hat, l)]
    IN  {[default |-> [a \in axes |-> ZERO],
          locations |-> sorted,
          influence |-> master_influence(regions_for(sorted)),
          delta_weights |->
              delta_weights_of(sorted, master_influence(regions_for(sorted)))] :
         sorted \in sort_by_cached_key(expanded_locations, key)}

\* C14: two distinct locations of a built model never have equal sort keys,
\* and the model is the only one new can return for its location set and
\* axis order, whatever order the hash set was walked in
C14_KeyStrict ==
    pc = "built" =>
        LET hat == LocationSortingHat_new(Range(locations), axis_order)
        IN  /\ \A l1, l2 \in Range(locations) :
                 l1 # l2 => LocationSortKey_cmp(key_for(hat, l1),
                                                key_for(hat, l2)) # 0
            /\ new_models(in_locations, axis_order) = {Self}

\* a model with two locations whose keys differ in axis_value_abs alone
C14_Witness ==
    /\ pc = "built"
    /\ Len(locations) >= 3
    /\ LET hat == LocationSortingHat_new(Range(locations), axis_order)
       IN  \E l1, l2 \in Range(locations) :
             /\ l1 # l2
             /\ key_for(hat, l1).on_axis_points = key_for(hat, l2).on_axis_points
             /\ key_for(hat, l1).known_axes = key_for(hat, l2).known_axes
             /\ key_for(hat, l1).axis_value_signs = key_for(hat, l2).axis_value_signs

\* the four-corner family: both axes at 0 or 1
FourCorners == [{"wght", "wdth"} -> {ZERO, ONE}]

\* the corner that is 1 on axis a alone
SingleAxisCorner(a) == [b \in {"wght", "wdth"} |-> IF b = a THEN ONE ELSE ZERO]

\* C15: for the four-corner family the order is default, the single-axis
\* corner on the axis listed first in axis_order, the other single-axis
\* corner, the double-axis corner, and the weight tables are [], [(0,1)],
\* [(0,1)], [(0,1),(1,1),(2,1)]
C15_FourCorners ==
    (pc = "built" /\ in_locations = FourCorners) =>
        /\ locations = <<[b \in {"wght", "wdth"} |-> ZERO],
                         SingleAxisCorner(axis_order[1]),
                         SingleAxisCorner(axis_order[2]),
                         [b \in {"wght", "wdth"} |-> ONE]>>
        /\ delta_weights = << <<>>,
                              <<<<0, ONE>>>>,
                              <<<<0, ONE>>>>,
                              <<<<0, ONE>>, <<1, ONE>>, <<2, ONE>>>> >>

\* the four-corner model built with wdth listed before wght
C15_Witness ==
    /\ pc = "built"
    /\ in_locations = FourCorners
    /\ axis_order = <<"wdth", "wght">>
    /\ locations[2] = [wght |-> ZERO, wdth |-> ONE]

ScalarDone == pc = "done" /\ ret.kind = "scalar_at"

\* the coordinate scalar_at reads for axis a
Coord(location, a) == IF a \in DOMAIN location THEN location[a] ELSE ZERO

\* region r without the axes in D
Without(r, D) == [a \in DOMAIN r \ D |-> r[a]]

RECURSIVE RProduct(_, _)
RProduct(f, S) ==
    IF S = {} THEN ONE
    ELSE LET a == CHOOSE x \in S : TRUE
         IN  RMul(f[a], RProduct(f, S \ {a}))

\* v is strictly between lower and upper of a valid tent other than
\* (0,0,0), and is not the peak
Interpolated(tent, v) ==
    /\ validate(tent)
    /\ tent # Tent(ZERO, ZERO, ZERO)
    /\ RLt(tent.lower, v)
    /\ RLt(v, tent.upper)
    /\ v # tent.peak

\* C16: scalar_at is the product over the region's axes of the per-axis
\* factors (the scalar of the one-axis regions); where v is strictly inside
\* a valid tent and off its peak the factor is (v - lower)/(peak - lower)
\* below the peak and (v - upper)/(peak - upper) above it; Tent(0,2,3) at
\* 0.2 gives 0.1 and Tent(0,2,4) at 2.5 gives 0.75; an axis the location
\* lacks is read as 0
C16_ScalarIsProduct ==
    ScalarDone =>
        LET region == arg.region
            location == arg.location
            factor == [a \in DOMAIN region |->
                         scalar_at([b \in {a} |-> region[a]], location)]
        IN  /\ ret.value = RProduct(factor, DOMAIN region)
            /\ \A a \in DOMAIN region :
                 LET t == region[a]
                     v == Coord(location, a)
                 IN  Interpolated(t, v) =>
                        factor[a] =
                            IF RLt(v, t.peak)
                            THEN RDiv(RSub(v, t.lower), RSub(t.peak, t.lower))
                            ELSE RDiv(RSub(v, t.upper), RSub(t.peak, t.upper))
            /\ ret.value = scalar_at(region, [a \in DOMAIN location \cup DOMAIN region |->
                                                 Coord(location, a)])
            /\ (region = [wght |-> Tent(ZERO, <<2, 1>>, <<3, 1>>)]
                    /\ location = [wght |-> <<1, 5>>]) => ret.value = <<1, 10>>
            /\ (region = [wght |-> Tent(ZERO, <<2, 1>>, <<4, 1>>)]
                    /\ location = [wght |-> <<5, 2>>]) => ret.value = <<3, 4>>

\* a scalar off 0 and 1 from a rising factor on one axis and a falling
\* one on the other
C16_Witness ==
    /\ ScalarDone
    /\ DOMAIN arg.region = {"wght", "wdth"}
    /\ DOMAIN arg.location = {"wght", "wdth"}
    /\ Interpolated(arg.region["wght"], arg.location["wght"])
    /\ RLt(arg.location["wght"], arg.region["wght"].peak)
    /\ Interpolated(arg.region["wdth"], arg.location["wdth"])
    /\ RLt(arg.region["wdth"].peak, arg.location["wdth"])
    /\ RLt(ZERO, ret.value)
    /\ RLt(ret.value, Half)

\* C17: scalar_at is 1 for the empty region at any location; an axis of
\* the location with no tent in the region changes nothing; a (0,0,0)
\* tent changes nothing at any coordinate
C17_NeutralFactors ==
    ScalarDone =>
        LET region == arg.region
            location == arg.location
            sentinels == {a \in DOMAIN region : region[a] = Tent(ZERO, ZERO, ZERO)}
        IN  /\ DOMAIN region = {} => ret.value = ONE
            /\ ret.value = scalar_at(region, [a \in DOMAIN location \cap DOMAIN region |->
                                                 location[a]])
            /\ ret.value = scalar_at(Without(region, sentinels), location)
            /\ sentinels = DOMAIN region => ret.value = ONE

\* a region of one (0,0,0) tent asked away from 0, at a location with one
\* more axis
C17_Witness ==
    /\ ScalarDone
    /\ arg.region = [wght |-> Tent(ZERO, ZERO, ZERO)]
    /\ arg.location = [wght |-> Half, wdth |-> ONE]
    /\ ret.value = ONE

\* C18: Tent::new keeps the peak; lower is 0 when peak > 0 and upper is 0
\* when peak <= 0, the other bound is kept; so the tent never has lower < 0
\* and upper > 0 together
C18_TentNew ==
    (pc = "done" /\ ret.kind = "Tent::new") =>
        LET tent == ret.value
        IN  /\ tent.peak = arg.peak
            /\ RLt(ZERO, arg.peak) =>
                    (tent.lower = ZERO /\ tent.upper = arg.upper)
            /\ RLe(arg.peak, ZERO) =>
                    (tent.upper = ZERO /\ tent.lower = arg.lower)
            /\ ~(RLt(tent.lower, ZERO) /\ RLt(ZERO, tent.upper))

\* Tent::new on bounds that span zero around a peak of 0
C18_Witness ==
    /\ pc = "done"
    /\ ret.kind = "Tent::new"
    /\ arg.peak = ZERO
    /\ RLt(arg.lower, ZERO)
    /\ RLt(ZERO, arg.upper)
    /\ ret.value = Tent(arg.lower, ZERO, ZERO)

\* C19: validate is true exactly when lower <= peak <= upper and not
\* (lower < 0 and upper > 0); (0,0,0) validates
C19_Validate ==
    (pc = "done" /\ ret.kind = "validate") =>
        /\ ret.value = (/\ RLe(arg.lower, arg.peak)
                        /\ RLe(arg.peak, arg.upper)
                        /\ ~(RLt(arg.lower, ZERO) /\ RLt(ZERO, arg.upper)))
        /\ arg = Tent(ZERO, ZERO, ZERO) => ret.value = TRUE

\* an ordered tent that spans zero is refused
C19_Witness ==
    /\ pc = "done"
    /\ ret.kind = "validate"
    /\ RLt(arg.lower, ZERO)
    /\ RLe(arg.lower, arg.peak)
    /\ RLe(arg.peak, arg.upper)
    /\ RLt(ZERO, arg.upper)
    /\ ret.value = FALSE

\* C20: an axis whose coordinate equals its tent's peak has factor 1, also
\* when the coordinate is <= lower or >= upper: leaving those axes out of
\* the region gives the same scalar, and the scalar is 1 when every axis
\* is at its peak
C20_PeakFirst ==
    ScalarDone =>
        LET region == arg.region
            location == arg.location
            at_peak == {a \in DOMAIN region : Coord(location, a) = region[a].peak}
        IN  /\ ret.value = scalar_at(Without(region, at_peak), location)
            /\ at_peak = DOMAIN region => ret.value = ONE

\* Tent(0,1,1) asked at 1 next to a tent of no width asked at its peak
C20_Witness ==
    /\ ScalarDone
    /\ arg.region = [wght |-> Tent(ZERO, ONE, ONE),
                      wdth |-> Tent(<<2, 1>>, <<2, 1>>, <<2, 1>>)]
    /\ arg.location = [wght |-> ONE, wdth |-> <<2, 1>>]
    /\ ret.value = ONE

\* the axes of the region with a valid tent other than (0,0,0) where the
\* coordinate is off the peak and outside the open support
OutOfSupport(region, location) ==
    {a \in DOMAIN region :
        /\ validate(region[a])
        /\ region[a] # Tent(ZERO, ZERO, ZERO)
        /\ Coord(location, a) # region[a].peak
        /\ \/ RLe(Coord(location, a), region[a].lower)
           \/ RLe(region[a].upper, Coord(location, a))}

\* C21: when some axis of the region is out of support the scalar is 0,
\* whatever the other axes give and in every order of visiting the axes
C21_OutOfSupportIsZero ==
    (ScalarDone /\ OutOfSupport(arg.region, arg.location) # {}) =>
        /\ ret.value = ZERO
        /\ scalar_at_orders(arg.region, arg.location) = {ZERO}

\* one axis out of support, the other at the peak of its valid tent
C21_Witness ==
    /\ ScalarDone
    /\ DOMAIN arg.region = {"wght", "wdth"}
    /\ Cardinality(OutOfSupport(arg.region, arg.location)) = 1
    /\ \E a \in DOMAIN arg.region :
         /\ validate(arg.region[a])
         /\ arg.region[a] # Tent(ZERO, ZERO, ZERO)
         /\ Coord(arg.location, a) = arg.region[a].peak
    /\ ret.value = ZERO

\* the axes of the region whose tent does not validate
Invalid(region) == {a \in DOMAIN region : ~validate(region[a])}

\* C22: a tent that does not validate is left out of the product and
\* raises nothing: scalar_at returns a number, the scalar of the region
\* without the axes of such tents
C22_InvalidLeftOut ==
    ScalarDone =>
        /\ ret.value \in Int \X (Nat \ {0})
        /\ ret.value = scalar_at(Without(arg.region, Invalid(arg.region)), arg.location)

\* a tent spanning zero next to a valid tent asked inside its support
C22_Witness ==
    /\ ScalarDone
    /\ arg.region = [wght |-> Tent(<<-1, 1>>, ZERO, ONE),
                      wdth |-> Tent(ZERO, ONE, <<2, 1>>)]
    /\ arg.location = [wght |-> Half, wdth |-> Half]
    /\ ret.value = Half

\* the largest and the smallest coordinate on an axis over the model's
\* locations, counted from 0
AxisMax(a) == RMax(AxisCoords(a) \cup {ZERO})

AxisMin(a) == RMin(AxisCoords(a) \cup {ZERO})

\* C23: regions_for gives one region per location in the same order; on an
\* axis where the location has c # 0 the tent is (0, c, max) for c > 0 and
\* (min, c, 0) for c < 0, min and max taken over all locations from 0, so
\* lower <= peak <= upper
C23_RegionsFor ==
    pc = "built" =>
        LET regions == regions_for(locations)
        IN  /\ DOMAIN regions = DOMAIN locations
            /\ \A i \in DOMAIN locations : \A a \in NonZeroAxes(locations[i]) :
                 LET c == locations[i][a]
                     tent == regions[i][a]
                 IN  /\ RLt(ZERO, c) => tent = Tent(ZERO, c, AxisMax(a))
                     /\ RLt(c, ZERO) => tent = Tent(AxisMin(a), c, ZERO)
                     /\ RLe(tent.lower, tent.peak)
                     /\ RLe(tent.peak, tent.upper)

\* a model with a location below the maximum of an axis and one on the
\* negative side of an axis that also has positive values
C23_Witness ==
    /\ pc = "built"
    /\ \E i \in DOMAIN locations : \E a \in NonZeroAxes(locations[i]) :
         RLt(ZERO, locations[i][a]) /\ RLt(locations[i][a], AxisMax(a))
    /\ \E i \in DOMAIN locations : \E a \in NonZeroAxes(locations[i]) :
         RLt(locations[i][a], ZERO) /\ RLt(ZERO, AxisMax(a))

\* C24 as worded: the axes of each region are the axes where its location
\* is not zero
C24_NonZeroAxesOnly ==
    pc = "built" =>
        \A i \in DOMAIN locations :
            DOMAIN regions_for(locations)[i] = NonZeroAxes(locations[i])

\* C24 amended: each region has one tent per axis of its location, the
\* (0,0,0) tent exactly on the axes where the location is at zero
C24_TentPerAxis ==
    pc = "built" =>
        \A i \in DOMAIN locations :
            LET region == regions_for(locations)[i]
            IN  /\ DOMAIN region = DOMAIN locations[i]
                /\ \A a \in DOMAIN region :
                     (region[a] = Tent(ZERO, ZERO, ZERO)) = (locations[i][a] = ZERO)

\* a model with a location on one axis only next to the default
C24_Witness ==
    /\ pc = "built"
    /\ default \in Range(locations)
    /\ \E i \in DOMAIN locations :
         /\ Cardinality(NonZeroAxes(locations[i])) = 1
         /\ Cardinality(DOMAIN regions_for(locations)[i]) = 2

\* region i of regions after the loop over prev_region has dealt with the
\* regions before j
Current(regions, i, j) == ClipLoop(regions[i], regions, 1, j)

\* the overlap of the claim: on every axis the earlier peak equals the
\* peak of cur or lies strictly between the bounds cur has by now
PeaksInside(cur, prev) ==
    \A a \in DOMAIN cur :
        \/ prev[a].peak = cur[a].peak
        \/ RLt(cur[a].lower, prev[a].peak) /\ RLt(prev[a].peak, cur[a].upper)

\* C25: region i is shrunk against region j < i exactly when j has the
\* same axis set and overlaps i's current bounds, and then j's location is
\* off zero on the same axes as i's; the regions after i do not matter to
\* influence[i], and region 0 is returned as it was
C25_ShrinkOnOverlap ==
    pc = "built" =>
        LET regions == regions_for(locations)
        IN  /\ \A i \in DOMAIN regions :
                 /\ influence[i] = Current(regions, i, i)
                 /\ influence[i] = master_influence(SubSeq(regions, 1, i))[i]
                 /\ \A j \in 1..(i - 1) :
                      (Current(regions, i, j + 1) # Current(regions, i, j))
                        = (/\ DOMAIN regions[j] = DOMAIN regions[i]
                           /\ PeaksInside(Current(regions, i, j), regions[j]))
                 /\ \A j \in 1..(i - 1) :
                      Current(regions, i, j + 1) # Current(regions, i, j) =>
                          NonZeroAxes(locations[j]) = NonZeroAxes(locations[i])
            /\ regions # <<>> => influence[1] = regions[1]

\* a region shrunk against one earlier region and, with the bounds it then
\* has, not against a later one that its first bounds did overlap
C25_Witness ==
    /\ pc = "built"
    /\ LET regions == regions_for(locations)
       IN  \E i \in DOMAIN regions : \E j, k \in 1..(i - 1) :
             /\ j < k
             /\ Current(regions, i, j + 1) # Current(regions, i, j)
             /\ PeaksInside(regions[i], regions[k])
             /\ ~PeaksInside(Current(regions, i, k), regions[k])

\* the ratio of the claim for axis a: the distance of the earlier peak from
\* the peak of cur over the distance of the bound on that side
ClipRatio(cur, prev, a) ==
    LET edge == IF RLt(prev[a].peak, cur[a].peak) THEN cur[a].lower ELSE cur[a].upper
    IN  RDiv(RAbs(RSub(prev[a].peak, cur[a].peak)), RAbs(RSub(edge, cur[a].peak)))

\* the axes on which the peaks differ
PeaksDiffer(cur, prev) == {a \in DOMAIN cur : prev[a].peak # cur[a].peak}

\* the axes of the largest ratio
LargestRatio(cur, prev) ==
    {a \in PeaksDiffer(cur, prev) :
        \A b \in PeaksDiffer(cur, prev) :
            RLe(ClipRatio(cur, prev, b), ClipRatio(cur, prev, a))}

\* C26: when region i is shrunk against an overlapping earlier region the
\* axes whose tent changes are exactly the axes of the largest ratio among
\* those where the peaks differ, all of them when several tie
C26_ClipsLargestRatio ==
    pc = "built" =>
        LET regions == regions_for(locations)
        IN  \A i \in DOMAIN regions : \A j \in 1..(i - 1) :
              LET cur == Current(regions, i, j)
                  next == Current(regions, i, j + 1)
              IN  (DOMAIN regions[j] = DOMAIN cur /\ PeaksInside(cur, regions[j])) =>
                    {a \in DOMAIN cur : next[a] # cur[a]}
                        = LargestRatio(cur, regions[j])

\* one shrink where two axes tie and both are clipped, and one where the
\* peaks differ on two axes and only one is clipped
C26_Witness ==
    /\ pc = "built"
    /\ LET regions == regions_for(locations)
           Step(n) ==
             \E i \in DOMAIN regions : \E j \in 1..(i - 1) :
               LET cur == Current(regions, i, j)
               IN  /\ PeaksInside(cur, regions[j])
                   /\ Cardinality(PeaksDiffer(cur, regions[j])) = 2
                   /\ Cardinality({a \in DOMAIN cur :
                                      Current(regions, i, j + 1)[a] # cur[a]}) = n
       IN  Step(1) /\ Step(2)

\* C27: a clip puts the earlier peak in place of the lower bound when that
\* peak is below the current peak and of the upper bound when it is above,
\* and leaves the peak; so every tent of influence[i] has the coordinate
\* of locations[i] as its peak and bounds between those regions_for built
\* and the peak
C27_BoundsOnlyShrink ==
    pc = "built" =>
        LET regions == regions_for(locations)
        IN  \A i \in DOMAIN regions :
              /\ \A j \in 1..(i - 1) :
                   LET cur == Current(regions, i, j)
                       next == Current(regions, i, j + 1)
                       prev == regions[j]
                   IN  \A a \in DOMAIN cur :
                         next[a] # cur[a] =>
                            next[a] = IF RLt(prev[a].peak, cur[a].peak)
                                      THEN Tent(prev[a].peak, cur[a].peak, cur[a].upper)
                                      ELSE Tent(cur[a].lower, cur[a].peak, prev[a].peak)
              /\ DOMAIN influence[i] = DOMAIN locations[i]
              /\ \A a \in DOMAIN influence[i] :
                   /\ influence[i][a].peak = locations[i][a]
                   /\ RLe(regions[i][a].lower, influence[i][a].lower)
                   /\ RLe(influence[i][a].lower, influence[i][a].peak)
                   /\ RLe(influence[i][a].peak, influence[i][a].upper)
                   /\ RLe(influence[i][a].upper, regions[i][a].upper)

\* a model where one tent lost part of its lower side and one part of its
\* upper side
C27_Witness ==
    /\ pc = "built"
    /\ LET regions == regions_for(locations)
       IN  /\ \E i \in DOMAIN regions : \E a \in DOMAIN regions[i] :
                RLt(regions[i][a].lower, influence[i][a].lower)
           /\ \E i \in DOMAIN regions : \E a \in DOMAIN regions[i] :
                RLt(influence[i][a].upper, regions[i][a].upper)

\* the keys of point_seqs that are not locations of the model
UnknownKeys == DOMAIN point_seqs \ Range(locations)

Finite(r) == r[2] # 0

\* C29: in a built model every tent of influence validates; no ratio of a
\* clipping turn and no interpolation factor of an influence region at a
\* location of the model divides by zero
C29_TentsValidNoZeroDivide ==
    pc = "built" =>
        LET regions == regions_for(locations)
        IN  \A i \in DOMAIN influence :
              /\ \A a \in DOMAIN influence[i] : validate(influence[i][a])
              /\ \A j \in 1..(i - 1) :
                   LET cur == Current(regions, i, j)
                       prev == regions[j]
                   IN  (DOMAIN prev = DOMAIN cur /\ PeaksInside(cur, prev)) =>
                         \A a \in PeaksDiffer(cur, prev) :
                           /\ RLt(prev[a].peak, cur[a].peak) => cur[a].lower # cur[a].peak
                           /\ RLt(cur[a].peak, prev[a].peak) => cur[a].upper # cur[a].peak
                           /\ Finite(ClipRatio(cur, prev, a))
              /\ \A k \in DOMAIN locations :
                   /\ Finite(scalar_at(influence[i], locations[k]))
                   /\ \A a \in DOMAIN influence[i] :
                        LET t == influence[i][a]
                            v == Coord(locations[k], a)
                        IN  Interpolated(t, v) =>
                              /\ RLt(v, t.peak) => t.peak # t.lower
                              /\ RLt(t.peak, v) => t.peak # t.upper

\* a model with a clipped tent and a weight that is neither 0 nor 1
C29_Witness ==
    /\ pc = "built"
    /\ influence # regions_for(locations)
    /\ \E k \in DOMAIN delta_weights : \E n \in DOMAIN delta_weights[k] :
         delta_weights[k][n][2] # ONE

====
